---- MODULE Spec2Model ----
(***************************************************************************)
(* Image Dimension Analyzer (src/App.py): the upload / reset / analyze     *)
(* state machine of one Streamlit session.                                 *)
(*                                                                         *)
(* One step of the model is one user event followed by the script run      *)
(* (render pass) the event triggers.  The state holds st.session_state,    *)
(* the value the framework keeps for the file_uploader widget under its    *)
(* key, and what the last render pass put on the page.                     *)
(***************************************************************************)
EXTENDS Integers, Sequences, FiniteSets, TLC

VARIABLES
    session_state,  \* [uploader_key_counter, current_uploaded_file]
    widget,         \* the file_uploader instance of the last pass: [key, value]
    page,           \* what the last render pass displayed
    event,          \* the user event that triggered the last render pass
    usedKeys,       \* every widget key a render pass has used so far
    reset_pending,  \* a Reset happened and no upload has succeeded since
    previous_file   \* the stored upload before the last Upload/Remove/Reset

vars ==
    <<session_state, widget, page, event, usedKeys, reset_pending,
      previous_file>>

---------------------------------------------------------------------------
(* Bounds *)

\* Reset is offered while the rotation counter is below MaxResets.
MaxResets == 3

\* Decoded images have width and height in 0..MaxDim, plus the sizes of
\* SpecialSizes.
MaxDim == 3

---------------------------------------------------------------------------
(* Files the user can put into the upload widget *)

\* Python's None, as a value comparable with file records.
None == [name |-> "", kind |-> "none", width |-> 0, height |-> 0]

Names == {"a.png", "b.jpg"}

SpecialSizes == {<<1920, 1080>>, <<100, 100>>, <<6, 4>>, <<4, 6>>}

Sizes == ((0..MaxDim) \X (0..MaxDim)) \cup SpecialSizes

\* kind "valid":     Image.open and st.image both succeed;
\* kind "badheader": Image.open raises (unidentified image);
\* kind "truncated": Image.open reads the header, st.image raises when it
\*                   loads the pixel data.
ValidFiles ==
    {[name |-> n, kind |-> "valid", width |-> s[1], height |-> s[2]] :
        n \in Names, s \in Sizes}

CorruptFiles ==
    {[name |-> n, kind |-> k, width |-> 0, height |-> 0] :
        n \in Names, k \in {"badheader", "truncated"}}

Files == ValidFiles \cup CorruptFiles

---------------------------------------------------------------------------
(* Pure helpers *)

\* math.gcd as fractions.Fraction uses it (Euclid's algorithm).
RECURSIVE gcd(_, _)
gcd(a, b) == IF b = 0 THEN a ELSE gcd(b, a % b)

\* A plausible slip: the fraction is built without normalisation.
FractionUnreduced(numerator, denominator) ==
    [numerator |-> numerator, denominator |-> denominator]

\* Fraction(width, height) for height > 0: numerator and denominator in
\* lowest terms.
Fraction(numerator, denominator) ==
    LET g == gcd(numerator, denominator)
    IN  [numerator |-> numerator \div g, denominator |-> denominator \div g]

\* A plausible slip: the ZeroDivisionError handler guards the wrong operand.
aspect_ratio_str_wrong_guard(width, height) ==
    IF width = 0 /\ height = 0
    THEN "N/A"
    ELSE IF height = 0
         THEN ToString(width) \o ":0"
         ELSE LET f == Fraction(width, height)
              IN  ToString(f.numerator) \o ":" \o ToString(f.denominator)

\* try: Fraction(width, height) ... except ZeroDivisionError: "N/A"
aspect_ratio_str(width, height) ==
    IF height = 0
    THEN "N/A"
    ELSE LET f == Fraction(width, height)
         IN  ToString(f.numerator) \o ":" \o ToString(f.denominator)

\* Three decimal digits, zero padded.
Pad3(n) ==
    IF n < 10 THEN "00" \o ToString(n)
    ELSE IF n < 100 THEN "0" \o ToString(n)
    ELSE ToString(n)

\* f"{n:,}" for 0 <= n < 1,000,000.
FmtThousands(n) ==
    IF n < 1000 THEN ToString(n)
    ELSE ToString(n \div 1000) \o "," \o Pad3(n % 1000)

\* f"{n:,} px"
MetricPx(n) == FmtThousands(n) \o " px"

---------------------------------------------------------------------------
(* Session state and the upload widget *)

\* A plausible slip: a static widget key.
StaticKey(counter) == "file_uploader"

\* key=f"file_uploader_{st.session_state['uploader_key_counter']}"
KeyOf(counter) == "file_uploader_" \o ToString(counter)

\* st.file_uploader(key=...): the framework returns the value it holds for
\* a widget of that key; a key it has not rendered in the previous pass is
\* a new widget instance, holding no file.
file_uploader(key, w) == IF w.key = key THEN w.value ELSE None

\* A plausible slip: the stored file is cleared but the key is not rotated.
reset_no_rotation(ss) == [ss EXCEPT !.current_uploaded_file = None]

\* A plausible slip: the key is rotated but the stored file is kept.
reset_no_clear(ss) == [ss EXCEPT !.uploader_key_counter = @ + 1]

\* The on_click callback of the Reset button.
reset_app_state(ss) ==
    [ss EXCEPT !.uploader_key_counter = @ + 1,
               !.current_uploaded_file = None]

\* A plausible slip: only a first upload is stored.
PersistFirstOnly(ss, uploaded_file) ==
    IF uploaded_file # None /\ ss.current_uploaded_file = None
    THEN [ss EXCEPT !.current_uploaded_file = uploaded_file]
    ELSE ss

\* A plausible slip: the widget's value is stored also when it is empty.
PersistAlways(ss, uploaded_file) ==
    [ss EXCEPT !.current_uploaded_file = uploaded_file]

\* if uploaded_file is not None: session_state[...] = uploaded_file
Persist(ss, uploaded_file) ==
    IF uploaded_file # None
    THEN [ss EXCEPT !.current_uploaded_file = uploaded_file]
    ELSE ss

\* Image.open(io.BytesIO(image_bytes)) returns (TRUE) or raises (FALSE).
ImageOpen(f) == f.kind \in {"valid", "truncated"}

\* st.image(image_data, ...) returns (TRUE) or raises (FALSE).
st_image(f) == f.kind = "valid"

\* A plausible slip: the handler reports the error and keeps the file.
OnDecodeErrorKeep(ss) == ss

\* A plausible slip: the handler also rotates the widget key.
OnDecodeErrorRotate(ss) ==
    [ss EXCEPT !.uploader_key_counter = @ + 1,
               !.current_uploaded_file = None]

\* except Exception: ... session_state["current_uploaded_file"] = None
OnDecodeError(ss) == [ss EXCEPT !.current_uploaded_file = None]

\* A plausible slip: the button is never rendered disabled.
IsFileReadyAlways(uploaded_file, image_data) == TRUE

\* is_file_ready = uploaded_file is not None and image_data is not None
IsFileReady(uploaded_file, image_data) ==
    uploaded_file # None /\ image_data # None

NoMetrics(kind) ==
    [kind |-> kind, file_name |-> "", width |-> "", height |-> "",
     aspect |-> ""]

\* The content of report_container at the end of the pass.
Report(uploaded_file, image_data, is_file_ready, analysis_clicked) ==
    IF is_file_ready
    THEN IF analysis_clicked
         THEN [kind      |-> "success",
               file_name |-> uploaded_file.name,
               width     |-> MetricPx(image_data.width),
               height    |-> MetricPx(image_data.height),
               aspect    |-> aspect_ratio_str(image_data.width,
                                              image_data.height)]
         ELSE NoMetrics("info")
    ELSE NoMetrics("warning")

\* One run of app(): `uploaded` is what st.file_uploader returned,
\* `clicked` whether the run was triggered by the Analyze button.
Render(ss, uploaded, clicked) ==
    LET ss1           == Persist(ss, uploaded)
        current_file  == ss1.current_uploaded_file
        opened        == current_file # None /\ ImageOpen(current_file)
        shown         == opened /\ st_image(current_file)
        failed        == current_file # None /\ ~shown
        ss2           == IF failed THEN OnDecodeError(ss1) ELSE ss1
        uploaded_file == IF current_file = None THEN uploaded
                         ELSE IF failed THEN None ELSE current_file
        image_data    == IF shown THEN current_file ELSE None
        ready         == IsFileReady(uploaded_file, image_data)
        analysis_clicked == ready /\ clicked
    IN  [session_state |-> ss2,
         page |-> [preview_heading |-> opened,
                   preview         |-> image_data,
                   error           |-> failed,
                   is_file_ready   |-> ready,
                   report          |-> Report(uploaded_file, image_data,
                                              ready, analysis_clicked)]]

---------------------------------------------------------------------------
(* The state machine *)

\* The script run that follows an event: ss and w are the session state
\* and the widget store as the event left them.
Pass(ss, w, clicked, ev) ==
    LET key == KeyOf(ss.uploader_key_counter)
        up  == file_uploader(key, w)
        r   == Render(ss, up, clicked)
    IN  /\ session_state' = r.session_state
        /\ widget' = [key |-> key, value |-> up]
        /\ page' = r.page
        /\ event' = ev
        /\ usedKeys' = usedKeys \cup {key}
        /\ reset_pending' =
             IF ev = "Reset" THEN TRUE
             ELSE IF ev = "Upload" /\ r.page.is_file_ready THEN FALSE
             ELSE reset_pending
        /\ previous_file' =
             IF ev \in {"Upload", "Remove", "Reset"}
             THEN session_state.current_uploaded_file
             ELSE previous_file

\* The session after its first script run, nothing uploaded.
Init ==
    LET ss0 == [uploader_key_counter |-> 0, current_uploaded_file |-> None]
        r   == Render(ss0, None, FALSE)
    IN  /\ session_state = r.session_state
        /\ widget = [key |-> KeyOf(0), value |-> None]
        /\ page = r.page
        /\ event = "Init"
        /\ usedKeys = {KeyOf(0)}
        /\ reset_pending = FALSE
        /\ previous_file = None

\* The user picks file f in the upload widget.
Upload(f) ==
    /\ f \in Files
    /\ Pass(session_state, [widget EXCEPT !.value = f], FALSE, "Upload")

\* The user removes the file from the upload widget.
Remove ==
    /\ widget.value # None
    /\ Pass(session_state, [widget EXCEPT !.value = None], FALSE, "Remove")

\* A re-run with no input change.
Rerun ==
    /\ widget.key = KeyOf(session_state.uploader_key_counter)
    /\ Pass(session_state, widget, FALSE, "Rerun")

\* The user clicks the enabled Analyze button.
Analyze ==
    /\ page.is_file_ready
    /\ Pass(session_state, widget, TRUE, "Analyze")

\* The user clicks Reset: the callback runs, then the script.
Reset ==
    /\ session_state.uploader_key_counter < MaxResets
    /\ Pass(reset_app_state(session_state), widget, FALSE, "Reset")

Next ==
    \/ \E f \in Files : Upload(f)
    \/ Remove
    \/ Rerun
    \/ Analyze
    \/ Reset

Spec == Init /\ [][Next]_vars

---------------------------------------------------------------------------
(* Shorthands used by the properties *)

stored == session_state.current_uploaded_file

counter == session_state.uploader_key_counter

\* The greatest common divisor by its definition: the largest number that
\* divides both (for h > 0).
GreatestCommonDivisor(w, h) ==
    CHOOSE d \in 1..h :
        /\ w % d = 0
        /\ h % d = 0
        /\ \A e \in 1..h : (w % e = 0 /\ h % e = 0) => e <= d

---------------------------------------------------------------------------
(* Properties *)

\* C1: after a Reset the stored upload is empty and the upload widget is a
\* fresh instance under a key no earlier pass used; in every following pass,
\* until an upload succeeds, nothing is stored or previewed and the Analyze
\* button is disabled.
C1_ResetForgetsUpload ==
    [][ /\ event' = "Reset" =>
              /\ widget'.key \notin usedKeys
              /\ widget'.value = None
              /\ stored' = None
        /\ reset_pending' =>
              /\ stored' = None
              /\ page'.preview = None
              /\ ~page'.is_file_ready
              /\ page'.report.kind = "warning" ]_vars

\* A Reset pass that followed a stored valid file.
C1_Witness ==
    /\ event = "Reset"
    /\ previous_file \in ValidFiles
    /\ reset_pending
    /\ Cardinality(usedKeys) >= 2

\* C2: the pass that handles an upload whose decode fails surfaces an
\* error, shows no preview image, clears the stored upload and disables the
\* Analyze button, also when a valid file was stored before.
C2_CorruptUploadClears ==
    (event = "Upload" /\ widget.value \in CorruptFiles) =>
        /\ page.error
        /\ page.preview = None
        /\ stored = None
        /\ ~page.is_file_ready
        /\ page.report.kind = "warning"

\* A corrupt upload on top of a stored valid file.
C2_Witness ==
    /\ event = "Upload"
    /\ widget.value \in CorruptFiles
    /\ previous_file \in ValidFiles
    /\ page.error

\* C3: a valid upload replaces whatever was stored, and an Analyze event
\* then reports the name, width and height of the file uploaded last.
C3_SecondUploadReplaces ==
    /\ (event = "Upload" /\ widget.value \in ValidFiles) =>
          /\ stored = widget.value
          /\ page.preview = widget.value
    /\ (event = "Analyze" /\ widget.value # None) =>
          /\ stored = widget.value
          /\ page.report.kind = "success"
          /\ page.report.file_name = widget.value.name
          /\ page.report.width = MetricPx(widget.value.width)
          /\ page.report.height = MetricPx(widget.value.height)

\* An analysis of a second file that differs from the first in name, width
\* and height.
C3_Witness ==
    /\ event = "Analyze"
    /\ previous_file \in ValidFiles
    /\ widget.value \in ValidFiles
    /\ previous_file.name # widget.value.name
    /\ previous_file.width # widget.value.width
    /\ previous_file.height # widget.value.height
    /\ page.report.kind = "success"

\* C4: at the end of every pass the stored upload is non-null only if its
\* decode succeeded in that pass; it is null initially, after every Reset
\* and after every decode failure.
C4_StoredOnlyIfDecoded ==
    /\ stored # None => (stored \in ValidFiles /\ page.preview = stored
                           /\ ~page.error)
    /\ event \in {"Init", "Reset"} => stored = None
    /\ page.error => stored = None

\* A stored file that outlives its removal from the widget.
C4_Witness ==
    /\ stored \in ValidFiles
    /\ widget.value = None
    /\ page.preview = stored

\* C5: the Analyze button is enabled exactly when a stored file exists and
\* was decoded in the pass; with the button disabled, and in the error
\* state, no metrics are displayed.
C5_AnalyzeOnlyInHasFile ==
    /\ page.is_file_ready <=> (stored # None /\ page.preview = stored)
    /\ ~page.is_file_ready => page.report = NoMetrics("warning")
    /\ page.error => ~page.is_file_ready
    /\ page.report.kind = "success" => (page.is_file_ready /\ event = "Analyze")

\* The error state reached from HasFile: button disabled, no metrics.
C5_Witness ==
    /\ page.error
    /\ previous_file \in ValidFiles
    /\ ~page.is_file_ready
    /\ page.report.kind = "warning"

\* C6: for height > 0 the reported aspect ratio is "(w/g):(h/g)" with g the
\* greatest common divisor of w and h; 1920x1080 gives "16:9" and 100x100
\* gives "1:1".
C6_AspectRatioReduced ==
    (page.report.kind = "success" /\ stored.height > 0) =>
        LET w == stored.width
            h == stored.height
            g == GreatestCommonDivisor(w, h)
        IN  /\ page.report.aspect =
                 ToString(w \div g) \o ":" \o ToString(h \div g)
            /\ (w = 1920 /\ h = 1080) => page.report.aspect = "16:9"
            /\ (w = 100 /\ h = 100) => page.report.aspect = "1:1"

\* The analysis of a 1920x1080 image.
C6_Witness ==
    /\ page.report.kind = "success"
    /\ stored.width = 1920
    /\ stored.height = 1080
    /\ page.report.aspect = "16:9"

\* C7: an Analyze event on an image of height 0 reports "N/A" together
\* with width and height as a completed analysis, shows no error and leaves
\* the session state unchanged.
C7_ZeroHeightIsNotAnError ==
    [][ (event' = "Analyze" /\ stored \in ValidFiles /\ stored.height = 0) =>
            /\ page'.report.kind = "success"
            /\ page'.report.aspect = "N/A"
            /\ page'.report.file_name = stored.name
            /\ page'.report.width = MetricPx(stored.width)
            /\ page'.report.height = "0 px"
            /\ ~page'.error
            /\ page'.is_file_ready
            /\ session_state' = session_state ]_vars

\* A completed analysis of an image of positive width and height 0.
C7_Witness ==
    /\ event = "Analyze"
    /\ stored \in ValidFiles
    /\ stored.height = 0
    /\ stored.width > 0
    /\ page.report.aspect = "N/A"

\* C8: the rotation counter starts at 0, never decreases, grows by exactly
\* 1 on each Reset and is unchanged by every other event; the widget of a
\* pass is keyed by the counter's value in that pass.
C8_CounterRotation ==
    /\ counter = 0
    /\ widget.key = "file_uploader_0"
    /\ [][ /\ counter' >= counter
           /\ event' = "Reset" => counter' = counter + 1
           /\ event' # "Reset" => counter' = counter
           /\ widget'.key = "file_uploader_" \o ToString(counter') ]_vars

\* A second Reset.
C8_Witness ==
    /\ event = "Reset"
    /\ counter = 2
    /\ widget.key = "file_uploader_2"

\* C9: a pass in which the widget reports no file leaves the stored upload
\* unchanged, still previewed and analyzable; the stored upload goes back
\* to null only by a Reset or a decode failure.
C9_EmptyWidgetKeepsStored ==
    [][ /\ (event' # "Reset" /\ widget'.value = None) =>
              /\ session_state' = session_state
              /\ stored # None =>
                    /\ page'.preview = stored
                    /\ page'.is_file_ready
        /\ (stored # None /\ stored' = None) =>
              (event' = "Reset" \/ page'.error) ]_vars

\* The file was removed from the widget and is still stored and analyzable.
C9_Witness ==
    /\ event = "Remove"
    /\ widget.value = None
    /\ stored \in ValidFiles
    /\ page.is_file_ready

\* C10 as stated: after a decode failure every pass not preceded by a Reset
\* or a new upload fails again, and Empty without an error is reached only
\* by a Reset.
C10_Original ==
    [][ /\ page'.error =>
              /\ counter' = counter
              /\ stored' = None
              /\ widget'.value \in CorruptFiles
        /\ (page.error /\ event' \notin {"Reset", "Upload"}) =>
              /\ page'.error
              /\ widget' = widget
        /\ (page.error /\ ~page'.error /\ stored' = None) =>
              event' = "Reset" ]_vars

\* C10 (amended): a decode failure clears the stored upload and leaves the
\* counter alone, so the widget keeps the corrupt file; every following
\* pass in which the widget still holds it fails again, and Empty without
\* an error is reached only by a Reset or by removing the file from the
\* widget.
C10_ErrorRepeatsWhileWidgetHoldsFile ==
    [][ /\ page'.error =>
              /\ counter' = counter
              /\ stored' = None
              /\ widget'.value \in CorruptFiles
        /\ (page.error /\ event' \notin {"Reset", "Upload", "Remove"}) =>
              /\ page'.error
              /\ widget' = widget
        /\ (page.error /\ event' # "Reset" /\ widget'.value = widget.value) =>
              page'.error
        /\ (page.error /\ ~page'.error /\ stored' = None) =>
              event' \in {"Reset", "Remove"} ]_vars

\* The error surfaced again by a plain re-run.
C10_Witness ==
    /\ event = "Rerun"
    /\ page.error
    /\ widget.value \in CorruptFiles
    /\ stored = None

====
